---- MODULE Spec2Model ----
(***************************************************************************)
(* A model of the onboarding bot: the Telegram bot runtime (src/tg/bot.py), *)
(* the assistant query dispatcher (src/assistant/query.py) and the drivers  *)
(* of src/main.py.  All coroutines run on one asyncio event loop, so a step *)
(* of the model is the code a task runs between two suspension points.      *)
(*                                                                          *)
(* The components are checked one at a time, each under its own            *)
(* specification, with the variables of the other components held fixed:   *)
(*   SpecLifecycle  BotBase.run / add_tasks / complete_work / stop_session  *)
(*   SpecLifecycleFair  the same, with the scheduling of the event loop   *)
(*   SpecPolling    BotUpdateHandlerMixin (get_updates, process_updates)    *)
(*   SpecQuery      QueryDispatcher.run and the cycles of handle_user       *)
(*   SpecPipeline   the polling loop with main.dispatch_queries             *)
(*   SpecShutdown   the query side with the shutdown sequence of main       *)
(*   SpecCommands   main.handle_cmds                                        *)
(***************************************************************************)
EXTENDS Integers, Sequences, FiniteSets, TLC

(* ------------------------------ bounds --------------------------------- *)

\* Number of distinct tasks a caller hands to add_tasks.
MaxTasks == 3

TaskIds == 1..MaxTasks

\* Largest update_id the platform hands out.
MaxId == 3

\* Number of updates the platform delivers, over all getUpdates calls.
MaxUpdates == 2

\* Number of silences, each as long as the reset period, the clock goes through.
MaxSilences == 1

\* Number of messages that reach the query queue of the bot.
MaxQueries == 2

\* Number of user messages a thread of the assistant backend holds at most.
MaxMessages == 2

\* Longest command queue handle_cmds starts with.
MaxCmds == 3

(* -------------------------- program constants -------------------------- *)

\* timedelta(days=7), in days
ResetPeriod == 7

\* BotUpdateHandlerMixin.offset
InitialOffset == 1

\* last_date = None
NoDate == 0

\* A key absent from an update (a missing date, edit_date, chat id, text).
Absent == 0
NoText == "<absent>"

\* The local `date` of process_updates while it still holds self.last_date,
\* a datetime or None and not a timestamp.
NotTimestamp == -1

\* The clock (datetime.today(), in days) when the bot starts.
StartTime == ResetPeriod + 1
EndTime == StartTime + MaxSilences * ResetPeriod

ChatIds == {1}
Texts == {"/start", "hello"}

\* Chats and texts of the messages handed to the query dispatcher.
QueryChats == {1, 2}
QueryTexts == {"hello"}

\* Terminal states of a run, and the content types of the messages a
\* completed run generated.
RunStatuses == {"completed", "failed", "cancelled", "expired"}
RunMessages == {<<>>, <<"text">>, <<"image">>, <<"image", "text">>}
\* The runs run_thread may return: get_response lists the messages of a
\* completed run only.
Runs == {<<"completed", msgs>> : msgs \in RunMessages}
          \cup {<<status, <<>> >> : status \in RunStatuses \ {"completed"}}

\* Entries (chat, cmd, params) of the command queue.
CmdNames == {"start", "help", "bogus"}
CmdEntries == {<<1, c, "">> : c \in CmdNames}

\* bot.commands after bot.add_commands(start=..., help=...); main starts
\* handle_cmds only for a bot that has the command manager mixin.
RegisteredCommands == {"start", "help"}

(* ------------------------------- state --------------------------------- *)

VARIABLES
  \* BotBase (src/tg/bot.py:71-81)
  run_pc,           \* position of the coroutine BotBase.run
  is_running,       \* BotBase.is_running
  tasks,            \* BotBase._tasks
  work_complete,    \* BotBase._work_complete: "none" (None), "pending", "done"
  stop_session,     \* BotBase._stop_session:  "none" (None), "pending", "done"
  task_state,       \* per task: "new", "running", "finished" (done, its
                    \* done-callback scheduled), "discarded" (callback has run)
  set_result_calls, \* calls of _work_complete.set_result made by complete_work
  cw_error          \* last exception raised inside complete_work

VARIABLES
  \* BotUpdateHandlerMixin (src/tg/bot.py:218-237)
  offset,           \* offset
  last_id,          \* last_id
  last_date,        \* last_date (NoDate: None)
  updates,          \* the queue `updates`
  queries,          \* the queue `queries`
  cmds_pending,     \* the queue `cmds_pending`
  poll_pc,          \* position of the coroutine run_polling
  req_offset,       \* "offset" parameter of the getUpdates call in flight
  pu_date,          \* the local `date` of process_updates
  logged,           \* exceptions logged by run_polling
  now,              \* the clock
  delivered,        \* updates that getUpdates calls have returned so far
  \* history of the updates process_updates has applied to the cursor
  h_last,           \* update_id of the latest one (0: none yet)
  h_ok,             \* all of them came with strictly increasing ids and
                    \* event times inside the reset window
  arrived           \* history: (chat_id, text) of the messages among the
                    \* updates getUpdates has returned, in arrival order

lifeVars == <<run_pc, is_running, tasks, work_complete, stop_session,
              task_state, set_result_calls, cw_error>>

VARIABLES
  \* main.dispatch_queries and QueryDispatcher (src/assistant/query.py:35-42)
  dq_pc,            \* position of the coroutine dispatch_queries
  received,         \* messages process_message has queued so far
  qd_pc,            \* position of the coroutine QueryDispatcher.run
  qd_running,       \* QueryDispatcher.running
  qd_queries,       \* QueryDispatcher.queries
  chats,            \* QueryDispatcher.chats
  handlers,         \* QueryDispatcher.handlers (handler task ids)
  hinfo,            \* per handler task: its chat_id, query and state: "none",
                    \* "running", "cancelling" (cancel() requested), "done";
                    \* pc, the await handle_user is suspended at; thread,
                    \* its local thread_id; run, the status of the run of
                    \* its current cycle ("none" until run_thread returns);
                    \* text, whether that run generated a text message
  spawned,          \* handler tasks created so far
  threads,          \* QueryDispatcher.threads: chat_id -> thread id (0: no key)
  thread_log,       \* the assistant backend: per thread id, the texts of
                    \* the user messages it holds
  created,          \* threads the backend has created so far
  responses         \* QueryDispatcher.responses

VARIABLES
  \* main.handle_cmds (src/main.py:41-53)
  cmd_pc,           \* position of the coroutine handle_cmds
  cmd_handlers,     \* its local set `handlers`: <<n, chat, cmd>>, the task of
                    \* the n-th consumed entry
  sent,             \* sendMessage requests posted by command callbacks
  cmd_log           \* entries handle_cmds has consumed so far

cursorVars == <<offset, last_id, last_date, updates, poll_pc, req_offset,
                pu_date, logged, now, delivered, h_last, h_ok, arrived>>

pollVars == <<cursorVars, queries, cmds_pending>>

\* The assistant side of the query dispatcher.
asstVars == <<threads, thread_log, created, responses>>

qdVars == <<dq_pc, received, qd_pc, qd_running, qd_queries, chats, handlers,
            hinfo, spawned, asstVars>>

cmdVars == <<cmd_pc, cmd_handlers, sent, cmd_log>>

\* What the BotBase lifecycle steps leave alone.
notLife == <<pollVars, qdVars, cmdVars>>
\* What the polling steps leave alone.
notPoll == <<lifeVars, qdVars, cmdVars>>

vars == <<lifeVars, pollVars, qdVars, cmdVars>>

(* --------------------------- BotBase lifecycle -------------------------- *)

\* BotBase.__init__
BotInit ==
  /\ run_pc = "init"
  /\ is_running = FALSE
  /\ tasks = {}
  /\ work_complete = "none"
  /\ stop_session = "none"
  /\ task_state = [t \in TaskIds |-> "new"]
  /\ set_result_calls = 0
  /\ cw_error = "none"

\* BotBase.run up to its first suspension, `await self._stop_session`
\* (entering aiohttp.ClientSession does not suspend).
RunStart ==
  /\ run_pc = "init"
  /\ run_pc' = "await_stop"
  /\ is_running' = TRUE
  /\ stop_session' = "pending"
  /\ work_complete' = "pending"
  /\ UNCHANGED <<tasks, task_state, set_result_calls, cw_error>>
  /\ UNCHANGED notLife

\* BotBase.run resumed by the stop future: clears is_running and awaits
\* _work_complete; awaiting a future that is already done does not suspend,
\* so the coroutine then runs to its end and drops both futures.
RunAfterStop ==
  /\ run_pc = "await_stop"
  /\ stop_session = "done"
  /\ is_running' = FALSE
  /\ IF work_complete = "done"
       THEN /\ run_pc' = "stopped"
            /\ stop_session' = "none"
            /\ work_complete' = "none"
       ELSE /\ run_pc' = "await_work"
            /\ UNCHANGED <<stop_session, work_complete>>
  /\ UNCHANGED <<tasks, task_state, set_result_calls, cw_error>>
  /\ UNCHANGED notLife

\* BotBase.run resumed by the work-complete future.
RunAfterWork ==
  /\ run_pc = "await_work"
  /\ work_complete = "done"
  /\ run_pc' = "stopped"
  /\ stop_session' = "none"
  /\ work_complete' = "none"
  /\ UNCHANGED <<is_running, tasks, task_state, set_result_calls, cw_error>>
  /\ UNCHANGED notLife

\* BotBase.add_tasks(t): a caller of the class tracks a task it has created.
\* As in main, tasks are handed over while the bot runs and before stop is
\* requested; unlike main, a caller may hand them over one by one.
add_tasks(t) ==
  /\ stop_session = "pending"
  /\ task_state[t] = "new"
  /\ tasks' = tasks \cup {t}
  /\ task_state' = [task_state EXCEPT ![t] = "running"]
  /\ UNCHANGED <<run_pc, is_running, work_complete, stop_session,
                 set_result_calls, cw_error>>
  /\ UNCHANGED notLife

\* A tracked task ends (returns, raises or is cancelled); asyncio schedules
\* its done-callbacks with call_soon.
TaskFinish(t) ==
  /\ task_state[t] = "running"
  /\ task_state' = [task_state EXCEPT ![t] = "finished"]
  /\ UNCHANGED <<run_pc, is_running, tasks, work_complete, stop_session,
                 set_result_calls, cw_error>>
  /\ UNCHANGED notLife

SetResultLost(fut) == [fut |-> fut, err |-> "none"]

\* Future.set_result as complete_work calls it: the resulting future state
\* and the exception it raises.
SetResult(fut) ==
  CASE fut = "pending" -> [fut |-> "done", err |-> "none"]
    [] fut = "done"    -> [fut |-> "done", err |-> "InvalidStateError"]
    [] OTHER           -> [fut |-> "none", err |-> "AttributeError"]

complete_work_keeps(t) ==
  /\ task_state[t] = "finished"
  /\ task_state' = [task_state EXCEPT ![t] = "discarded"]
  /\ UNCHANGED <<run_pc, is_running, tasks, work_complete, stop_session,
                 set_result_calls, cw_error>>
  /\ UNCHANGED notLife

\* BotBase.complete_work(task), the done-callback of a tracked task.
complete_work(t) ==
  /\ task_state[t] = "finished"
  /\ task_state' = [task_state EXCEPT ![t] = "discarded"]
  /\ tasks' = tasks \ {t}
  /\ IF tasks' = {}
       THEN LET r == SetResult(work_complete) IN
            /\ work_complete' = r.fut
            /\ cw_error' = r.err
            /\ set_result_calls' =
                 IF work_complete = "none" THEN set_result_calls
                                           ELSE set_result_calls + 1
       ELSE UNCHANGED <<work_complete, set_result_calls, cw_error>>
  /\ UNCHANGED <<run_pc, is_running, stop_session>>
  /\ UNCHANGED notLife

StopSessionCancels ==
  /\ stop_session = "pending"
  /\ stop_session' = "done"
  /\ task_state' = [t \in TaskIds |->
                      IF task_state[t] = "running" THEN "finished"
                                                   ELSE task_state[t]]
  /\ UNCHANGED <<run_pc, is_running, tasks, work_complete,
                 set_result_calls, cw_error>>
  /\ UNCHANGED notLife

\* BotBase.stop_session()
StopSession ==
  /\ stop_session = "pending"
  /\ stop_session' = "done"
  /\ UNCHANGED <<run_pc, is_running, tasks, work_complete, task_state,
                 set_result_calls, cw_error>>
  /\ UNCHANGED notLife

(* --------------------------- update polling ---------------------------- *)

\* BotUpdateHandlerMixin class attributes and conf_updates
PollInit ==
  /\ offset = InitialOffset
  /\ last_id = 0
  /\ last_date = NoDate
  /\ updates = <<>>
  /\ queries = <<>>
  /\ poll_pc = "idle"
  /\ req_offset = 0
  /\ pu_date = NotTimestamp
  /\ logged = 0
  /\ now = StartTime
  /\ delivered = 0
  /\ h_last = 0
  /\ h_ok = TRUE
  /\ arrived = <<>>

Max(a, b) == IF a >= b THEN a ELSE b
Min(a, b) == IF a <= b THEN a ELSE b

\* The Update objects getUpdates may return at time t.  A "message" carries
\* its date; an "edited_message" carries the date of the original message and
\* an edit_date; an update of another kind has neither key.
Upd(i, k, d, e, c, x) ==
  [update_id |-> i, kind |-> k, date |-> d, edit_date |-> e,
   chat |-> c, text |-> x]

Updates(t) ==
  UNION {
    {Upd(i, "message", t, Absent, c, x) : c \in ChatIds, x \in Texts}
    \cup {Upd(i, "message", t, Absent, Absent, "hello"),
          Upd(i, "message", t, Absent, 1, NoText),
          Upd(i, "message", t - ResetPeriod, Absent, 1, "hello"),
          Upd(i, "message", Absent, Absent, 1, "hello"),
          Upd(i, "edited_message", t - ResetPeriod, t, 1, "hello"),
          Upd(i, "edited_message", Absent, t, 1, "hello"),
          Upd(i, "none", Absent, Absent, Absent, NoText)}
    : i \in 1..MaxId }

\* The "result" lists of at most n updates.
Batches(t, n) ==
  UNION {[1..k -> Updates(t)] : k \in 1..n}

\* `self.last_date > datetime.today() - timedelta(days=7)`
InWindow(date, today) == date > today - ResetPeriod

\* BotUpdateHandlerMixin.new_last_date: datetime.fromtimestamp is monotone,
\* dates and the clock are kept on one time line.
new_last_date(date) == date

\* BotUpdateHandlerMixin.new_last_id, given the last_date new_last_date has
\* just stored.
new_last_id_min(ld, lid, luid, today) ==
  IF ld # NoDate /\ InWindow(ld, today) THEN Min(lid, luid) ELSE luid

new_last_id(ld, lid, luid, today) ==
  IF ld # NoDate /\ InWindow(ld, today) THEN Max(lid, luid) ELSE luid

\* BotUpdateHandlerMixin.new_offset
new_offset_same(lid) == lid

new_offset(lid) == lid + 1

\* `msg_obj.get("date") or msg_obj.get("edit_date") or date`
EventDate(u, date) ==
  IF u.date # Absent THEN u.date
  ELSE IF u.edit_date # Absent THEN u.edit_date
  ELSE date

process_message_unchecked(q, u) == Append(q, <<u.chat, u.text>>)

\* BotUpdateHandlerMixin.process_message: the queue `queries` afterwards; a
\* missing chat id or text raises TypeError, which process_updates swallows.
process_message(q, u) ==
  IF u.chat # Absent /\ u.text # NoText
    THEN Append(q, <<u.chat, u.text>>)
    ELSE q

\* Whether update u carries a message with a chat id and a text.
HasChatAndText(u) == u.kind # "none" /\ u.chat # Absent /\ u.text # NoText

\* The queue entries (chat_id, text) of the messages among the updates us,
\* in the order of us.
Entries(us) ==
  LET ms == SelectSeq(us, HasChatAndText)
  IN [i \in 1..Len(ms) |-> <<ms[i].chat, ms[i].text>>]

\* The head of the `while self.is_running` loop of run_polling, reached when
\* process_updates has drained the queue: the next get_updates call starts
\* (it reads the offset and awaits the fetch or the stop future), or the
\* loop ends.  A get_updates call that starts with the stop future already
\* resolved ("stopping") is resumed by it before its fetch can return.
LoopHead(off) ==
  /\ poll_pc' = IF ~is_running THEN "done"
                ELSE IF stop_session = "pending" THEN "fetching"
                ELSE "stopping"
  /\ req_offset' = IF is_running THEN off ELSE req_offset

\* main creates the polling task once BotBase.run has started.
RunPolling ==
  /\ poll_pc = "idle"
  /\ run_pc # "init"
  /\ LoopHead(offset)
  /\ UNCHANGED <<offset, last_id, last_date, updates, queries, cmds_pending,
                 pu_date, logged, now, delivered, h_last, h_ok>>
  /\ UNCHANGED arrived
  /\ UNCHANGED notPoll

\* get_updates: the fetch completes with an "ok" result and `done.pop()`
\* yields it; its updates are queued and process_updates begins
\* (date = self.last_date).  When the fetch completes after the stop future
\* but before the poller is resumed, `done` holds both and pop() may yield
\* either: this step or FetchStopped.
FetchReturn(batch) ==
  /\ poll_pc = "fetching"
  /\ delivered' = delivered + Len(batch)
  /\ updates' = updates \o batch
  /\ arrived' = arrived \o Entries(batch)
  /\ pu_date' = NotTimestamp
  /\ poll_pc' = "processing"
  /\ UNCHANGED <<offset, last_id, last_date, queries, cmds_pending,
                 req_offset, logged, now, h_last, h_ok>>
  /\ UNCHANGED notPoll

\* get_updates: the fetch completes first with no update (a timed-out long
\* poll, or "ok" false); process_updates finds the queue empty.
FetchEmpty ==
  /\ poll_pc = "fetching"
  /\ LoopHead(offset)
  /\ UNCHANGED <<offset, last_id, last_date, updates, queries, cmds_pending,
                 pu_date, logged, now, delivered, h_last, h_ok>>
  /\ UNCHANGED arrived
  /\ UNCHANGED notPoll

\* get_updates: the fetch fails (network, json); getter.result() raises and
\* the exception reaches the handler of run_polling, outside its loop.
FetchError ==
  /\ poll_pc = "fetching"
  /\ logged' = logged + 1
  /\ poll_pc' = "done"
  /\ UNCHANGED <<offset, last_id, last_date, updates, queries, cmds_pending,
                 req_offset, pu_date, now, delivered, h_last, h_ok>>
  /\ UNCHANGED arrived
  /\ UNCHANGED notPoll

\* get_updates: the stop future completes first; the fetch is cancelled and
\* get_updates returns.  BotBase.run awaits the stop future since before the
\* poller does, so it has cleared is_running when the poller resumes.
FetchStopped ==
  /\ poll_pc \in {"fetching", "stopping"}
  /\ stop_session # "pending"
  /\ run_pc # "await_stop"
  /\ LoopHead(offset)
  /\ UNCHANGED <<offset, last_id, last_date, updates, queries, cmds_pending,
                 pu_date, logged, now, delivered, h_last, h_ok>>
  /\ UNCHANGED arrived
  /\ UNCHANGED notPoll

\* One iteration of the loop of process_updates.
ProcessUpdate ==
  /\ poll_pc = "processing"
  /\ updates # <<>>
  /\ LET u    == Head(updates)
         date == EventDate(u, pu_date)
     IN
     /\ updates' = Tail(updates)
     /\ IF u.kind = "none" \/ date = NotTimestamp
          THEN \* AttributeError on msg_obj.get, or TypeError in
               \* datetime.fromtimestamp: caught by run_polling
               /\ logged' = logged + 1
               /\ poll_pc' = "done"
               /\ UNCHANGED <<offset, last_id, last_date, queries, req_offset,
                              pu_date, h_last, h_ok>>
          ELSE LET ld  == new_last_date(date)
                   lid == new_last_id(ld, last_id, u.update_id, now)
                   off == new_offset(lid)
               IN
               /\ pu_date' = date
               /\ last_date' = ld
               /\ last_id' = lid
               /\ offset' = off
               /\ queries' = process_message(queries, u)
               /\ h_ok' = (h_ok /\ u.update_id > h_last /\ InWindow(date, now))
               /\ h_last' = u.update_id
               /\ IF updates' = <<>>
                    THEN LoopHead(off)
                    ELSE UNCHANGED <<poll_pc, req_offset>>
               /\ UNCHANGED logged
  /\ UNCHANGED <<cmds_pending, now, delivered>>
  /\ UNCHANGED arrived
  /\ UNCHANGED notPoll

\* No update arrives for as long as the reset period.
Silence ==
  /\ poll_pc = "fetching"
  /\ now + ResetPeriod <= EndTime
  /\ now' = now + ResetPeriod
  /\ UNCHANGED <<offset, last_id, last_date, updates, queries, cmds_pending,
                 poll_pc, req_offset, pu_date, logged, delivered, h_last, h_ok>>
  /\ UNCHANGED arrived
  /\ UNCHANGED notPoll

PollingNext ==
  \/ RunStart
  \/ StopSession
  \/ RunAfterStop
  \/ RunPolling
  \/ \E batch \in Batches(now, MaxUpdates - delivered) : FetchReturn(batch)
  \/ FetchEmpty
  \/ FetchError
  \/ FetchStopped
  \/ ProcessUpdate
  \/ Silence

(* ----------------------------- query path ------------------------------ *)

HandlerIds == 1..MaxQueries

\* The backend creates a thread at most once per handler task.
ThreadIds == 1..MaxQueries

\* QueryDispatcher.__init__, and main before it creates its tasks
QDInit ==
  /\ dq_pc = "idle"
  /\ received = 0
  /\ qd_pc = "idle"
  /\ qd_running = FALSE
  /\ qd_queries = <<>>
  /\ chats = {}
  /\ handlers = {}
  /\ hinfo = [h \in HandlerIds |->
                [chat |-> 0, query |-> "", st |-> "none", pc |-> "none",
                 thread |-> 0, run |-> "none", text |-> FALSE]]
  /\ spawned = 0
  /\ threads = [c \in QueryChats |-> 0]
  /\ thread_log = [t \in ThreadIds |-> <<>>]
  /\ created = 0
  /\ responses = <<>>

\* The polling loop hands a parseable message to process_message.
ReceiveMessage(c, x) ==
  /\ is_running
  /\ received < MaxQueries
  /\ received' = received + 1
  /\ queries' = process_message(queries, Upd(1, "message", now, Absent, c, x))
  /\ UNCHANGED <<dq_pc, qd_pc, qd_running, qd_queries, chats, handlers,
                 hinfo, spawned>>
  /\ UNCHANGED asstVars
  /\ UNCHANGED <<lifeVars, cursorVars, cmds_pending, cmdVars>>

\* main.dispatch_queries starts: the head of `while bot.is_running`.
DispatchQueriesStart ==
  /\ dq_pc = "idle"
  /\ run_pc # "init"
  /\ dq_pc' = IF is_running THEN "get" ELSE "done"
  /\ UNCHANGED <<received, qd_pc, qd_running, qd_queries, chats, handlers,
                 hinfo, spawned>>
  /\ UNCHANGED asstVars
  /\ UNCHANGED <<lifeVars, pollVars, cmdVars>>

DispatchQueryDrops ==
  /\ dq_pc = "get"
  /\ queries # <<>>
  /\ queries' = Tail(queries)
  /\ dq_pc' = IF is_running THEN "get" ELSE "done"
  /\ UNCHANGED <<received, qd_pc, qd_running, qd_queries, chats, handlers,
                 hinfo, spawned>>
  /\ UNCHANGED asstVars
  /\ UNCHANGED <<lifeVars, cursorVars, cmds_pending, cmdVars>>

\* main.dispatch_queries: one iteration, from bot.queries.get() returning to
\* the next loop head.
DispatchQuery ==
  /\ dq_pc = "get"
  /\ queries # <<>>
  /\ queries' = Tail(queries)
  /\ qd_queries' = Append(qd_queries, Head(queries))
  /\ dq_pc' = IF is_running THEN "get" ELSE "done"
  /\ UNCHANGED <<received, qd_pc, qd_running, chats, handlers, hinfo, spawned>>
  /\ UNCHANGED asstVars
  /\ UNCHANGED <<lifeVars, cursorVars, cmds_pending, cmdVars>>

\* utils.to_messages: the initial messages of a new thread.
to_messages(text) == <<text>>

\* What get_response does with the messages of a completed run, in order: a
\* text message binds `response` and then handle_annotations is called with
\* two of its four positional arguments; a message of another content type
\* raises AttributeError, which is passed over; after the last message
\* `response` is returned, bound or not.
RECURSIVE GetResponseLoop(_)
GetResponseLoop(msgs) ==
  IF msgs = <<>> THEN "UnboundLocalError"
  ELSE IF Head(msgs) = "text" THEN "TypeError"
  ELSE GetResponseLoop(Tail(msgs))

\* Whether a text message is among the messages a run generated.
HasText(msgs) == \E i \in DOMAIN msgs : msgs[i] = "text"

\* The exceptions get_response lets through to handle_user.
Raised == {"TypeError", "UnboundLocalError"}

get_response_any(status, msgs) == "reply"

\* get_response: None unless the run is completed.
get_response(status, msgs) ==
  IF status = "completed" THEN GetResponseLoop(msgs) ELSE "None"

\* QueryDispatcher.run up to its first `await self.queries.get()`.
QDRun ==
  /\ qd_pc = "idle"
  /\ qd_running' = TRUE
  /\ qd_pc' = "get"
  /\ UNCHANGED <<dq_pc, received, qd_queries, chats, handlers, hinfo, spawned>>
  /\ UNCHANGED asstVars
  /\ UNCHANGED <<lifeVars, pollVars, cmdVars>>

\* The handler tasks of chat c that are in state st.
HandlersOf(c, st) == {h \in HandlerIds : hinfo[h].chat = c /\ hinfo[h].st = st}

SpawnsHandlerKeepsSlot(chat_id, active) ==
  chat_id \notin active /\ HandlersOf(chat_id, "done") = {}

\* `if chat_id not in self.chats`: the handler task run creates for an entry,
\* if any.  run never adds to self.chats.
SpawnsHandler(chat_id, active) == chat_id \notin active

\* QueryDispatcher.run: one iteration, from queries.get() returning an entry
\* to the next loop head.
QDGet ==
  /\ qd_pc = "get"
  /\ qd_queries # <<>>
  /\ LET chat_id == Head(qd_queries)[1]
         query   == Head(qd_queries)[2]
         h       == spawned + 1
     IN
     /\ qd_queries' = Tail(qd_queries)
     /\ IF SpawnsHandler(chat_id, chats)
          THEN /\ spawned' = h
               /\ handlers' = handlers \cup {h}
               /\ hinfo' = [hinfo EXCEPT ![h] =
                              [chat |-> chat_id, query |-> query,
                               st |-> "running", pc |-> "start",
                               thread |-> 0, run |-> "none",
                               text |-> FALSE]]
          ELSE UNCHANGED <<spawned, handlers, hinfo>>
  /\ qd_pc' = IF qd_running THEN "get" ELSE "gather"
  /\ UNCHANGED <<dq_pc, received, qd_running, chats>>
  /\ UNCHANGED asstVars
  /\ UNCHANGED <<lifeVars, pollVars, cmdVars>>

\* QueryDispatcher.run: the 5 s timeout of queries.get() expires on an empty
\* queue after stop(); the loop ends and run gathers the handlers.
QDTimeout ==
  /\ qd_pc = "get"
  /\ qd_queries = <<>>
  /\ ~qd_running
  /\ qd_pc' = "gather"
  /\ UNCHANGED <<dq_pc, received, qd_running, qd_queries, chats, handlers,
                 hinfo, spawned>>
  /\ UNCHANGED asstVars
  /\ UNCHANGED <<lifeVars, pollVars, cmdVars>>

\* QueryDispatcher.run: `await asyncio.gather(*self.handlers)` returns or
\* raises once the handlers are done.
QDGathered ==
  /\ qd_pc = "gather"
  /\ \A h \in handlers : hinfo[h].st = "done"
  /\ qd_pc' = "done"
  /\ UNCHANGED <<dq_pc, received, qd_running, qd_queries, chats, handlers,
                 hinfo, spawned>>
  /\ UNCHANGED asstVars
  /\ UNCHANGED <<lifeVars, pollVars, cmdVars>>

\* QueryDispatcher.stop().  task.cancel() cancels the future the handler is
\* suspended at: all that is left of the handler is the CancelledError it
\* has yet to receive.
CancelHandlers ==
  [h \in HandlerIds |->
     IF h \in handlers /\ hinfo[h].st = "running"
       THEN [hinfo[h] EXCEPT !.st = "cancelling", !.pc = "none",
                             !.thread = 0, !.run = "none", !.text = FALSE]
       ELSE hinfo[h]]

QDStop ==
  /\ qd_running
  /\ qd_running' = FALSE
  /\ hinfo' = CancelHandlers
  /\ UNCHANGED <<dq_pc, received, qd_pc, qd_queries, chats, handlers, spawned>>
  /\ UNCHANGED asstVars
  /\ UNCHANGED <<lifeVars, pollVars, cmdVars>>

\* A handler task that has ended: its coroutine frame is gone.  `run` and
\* `text` keep the run an exception of get_response came from.
Ended(info, run, text) ==
  [info EXCEPT !.st = "done", !.pc = "none", !.thread = 0, !.run = run,
               !.text = text]

\* handle_user, from the start of the task or from the end of its sleep to
\* the first await of thread_message: the chat's thread is looked up in
\* self.threads; with a key, messages.create is requested for that thread,
\* without one, create_thread requests a new thread.
HandlerThreadMessage(h) ==
  /\ hinfo[h].st = "running"
  /\ hinfo[h].pc \in {"start", "sleep"}
  /\ LET thread_id == threads[hinfo[h].chat]
     IN hinfo' = IF thread_id # 0
                   THEN [hinfo EXCEPT ![h].pc = "messages_create",
                                      ![h].thread = thread_id,
                                      ![h].run = "none", ![h].text = FALSE]
                   ELSE [hinfo EXCEPT ![h].pc = "create_thread",
                                      ![h].run = "none", ![h].text = FALSE]
  /\ UNCHANGED <<dq_pc, received, qd_pc, qd_running, qd_queries, chats,
                 handlers, spawned>>
  /\ UNCHANGED asstVars
  /\ UNCHANGED <<lifeVars, pollVars, cmdVars>>

\* create_thread: the backend has created a thread holding
\* to_messages(text), the handler records its id under the chat and
\* thread_message goes on to request messages.create for it.
HandlerThreadCreated(h) ==
  /\ hinfo[h].st = "running"
  /\ hinfo[h].pc = "create_thread"
  /\ LET thread_id == created + 1
     IN
     /\ created' = thread_id
     /\ thread_log' = [thread_log EXCEPT ![thread_id] = to_messages(hinfo[h].query)]
     /\ threads' = [threads EXCEPT ![hinfo[h].chat] = thread_id]
     /\ hinfo' = [hinfo EXCEPT ![h].pc = "messages_create",
                               ![h].thread = thread_id]
  /\ UNCHANGED <<dq_pc, received, qd_pc, qd_running, qd_queries, chats,
                 handlers, spawned, responses>>
  /\ UNCHANGED <<lifeVars, pollVars, cmdVars>>

\* thread_message: messages.create has appended the text to the thread;
\* handle_user goes on to run_thread.
HandlerMessageCreated(h) ==
  /\ hinfo[h].st = "running"
  /\ hinfo[h].pc = "messages_create"
  /\ Len(thread_log[hinfo[h].thread]) < MaxMessages
  /\ thread_log' = [thread_log EXCEPT ![hinfo[h].thread] =
                                        Append(@, hinfo[h].query)]
  /\ hinfo' = [hinfo EXCEPT ![h].pc = "run_thread"]
  /\ UNCHANGED <<dq_pc, received, qd_pc, qd_running, qd_queries, chats,
                 handlers, spawned, threads, created, responses>>
  /\ UNCHANGED <<lifeVars, pollVars, cmdVars>>

\* run_thread returns a run in the terminal state `status` whose messages
\* have the content types `msgs`; get_response and the rest of the cycle of
\* handle_user follow, up to its sleep.
HandlerRunEnds(h, status, msgs) ==
  /\ hinfo[h].st = "running"
  /\ hinfo[h].pc = "run_thread"
  /\ LET result == get_response(status, msgs)
     IN
     /\ hinfo' = IF result \in Raised
                   THEN [hinfo EXCEPT ![h] = Ended(@, status, HasText(msgs))]
                   ELSE [hinfo EXCEPT ![h].pc = "sleep", ![h].run = status,
                                      ![h].text = HasText(msgs)]
     /\ responses' = IF result \in Raised \/ result = "None"
                       THEN responses
                       ELSE Append(responses, <<hinfo[h].chat, result>>)
  /\ UNCHANGED <<dq_pc, received, qd_pc, qd_running, qd_queries, chats,
                 handlers, spawned, threads, thread_log, created>>
  /\ UNCHANGED <<lifeVars, pollVars, cmdVars>>

\* QueryDispatcher.handle_user ends: a call to the assistant backend raises
\* and nothing in handle_user catches it.
HandlerRaises(h) ==
  /\ hinfo[h].st = "running"
  /\ hinfo[h].pc \in {"create_thread", "messages_create", "run_thread"}
  /\ hinfo' = [hinfo EXCEPT ![h] = Ended(@, "none", FALSE)]
  /\ UNCHANGED <<dq_pc, received, qd_pc, qd_running, qd_queries, chats,
                 handlers, spawned>>
  /\ UNCHANGED asstVars
  /\ UNCHANGED <<lifeVars, pollVars, cmdVars>>

\* QueryDispatcher.handle_user ends: the CancelledError of task.cancel() is
\* thrown into it at its current await.
HandlerCancelled(h) ==
  /\ hinfo[h].st = "cancelling"
  /\ hinfo' = [hinfo EXCEPT ![h] = Ended(@, "none", FALSE)]
  /\ UNCHANGED <<dq_pc, received, qd_pc, qd_running, qd_queries, chats,
                 handlers, spawned>>
  /\ UNCHANGED asstVars
  /\ UNCHANGED <<lifeVars, pollVars, cmdVars>>

\* The done-callback of a handler task, self.handlers.discard.  Nothing
\* refers to the task any more: what is kept of it is that it has ended,
\* and for which chat.
HandlerDiscard(h) ==
  /\ h \in handlers
  /\ hinfo[h].st = "done"
  /\ handlers' = handlers \ {h}
  /\ hinfo' = [hinfo EXCEPT ![h] = Ended(@, "none", FALSE)]
  /\ UNCHANGED <<dq_pc, received, qd_pc, qd_running, qd_queries, chats,
                 spawned>>
  /\ UNCHANGED asstVars
  /\ UNCHANGED <<lifeVars, pollVars, cmdVars>>

\* The CancelledError handler of main, up to its `await gather`:
\* bot.stop_session(), qd.stop() and query_dispatcher.cancel() in one step
\* of the main task.  main is cancelled while it awaits the gathered tasks,
\* so all of them have started.
MainShutdown ==
  /\ run_pc = "await_stop"
  /\ stop_session = "pending"
  /\ qd_pc # "idle"
  /\ dq_pc = "get"
  /\ stop_session' = "done"
  /\ qd_running' = FALSE
  /\ hinfo' = CancelHandlers
  /\ dq_pc' = "cancelling"
  /\ UNCHANGED <<received, qd_pc, qd_queries, chats, handlers, spawned>>
  /\ UNCHANGED asstVars
  /\ UNCHANGED <<run_pc, is_running, tasks, work_complete, task_state,
                 set_result_calls, cw_error>>
  /\ UNCHANGED <<pollVars, cmdVars>>

\* dispatch_queries ends: the CancelledError of query_dispatcher.cancel()
\* is thrown into it at `await bot.queries.get()`; `except Exception` does
\* not catch it, and an entry that was ready for it stays on bot.queries.
DispatchQueriesCancelled ==
  /\ dq_pc = "cancelling"
  /\ dq_pc' = "done"
  /\ UNCHANGED <<received, qd_pc, qd_running, qd_queries, chats, handlers,
                 hinfo, spawned>>
  /\ UNCHANGED asstVars
  /\ UNCHANGED <<lifeVars, pollVars, cmdVars>>

\* main from its tasks' start to the end of its shutdown, query side.
ShutdownNext ==
  \/ RunStart
  \/ RunAfterStop
  \/ \E c \in QueryChats, x \in QueryTexts : ReceiveMessage(c, x)
  \/ DispatchQueriesStart
  \/ DispatchQuery
  \/ DispatchQueriesCancelled
  \/ QDRun
  \/ QDGet
  \/ QDTimeout
  \/ QDGathered
  \/ MainShutdown
  \/ \E h \in HandlerIds : HandlerThreadMessage(h)
  \/ \E h \in HandlerIds : HandlerThreadCreated(h)
  \/ \E h \in HandlerIds : HandlerMessageCreated(h)
  \/ \E h \in HandlerIds, run \in Runs : HandlerRunEnds(h, run[1], run[2])
  \/ \E h \in HandlerIds : HandlerRaises(h)
  \/ \E h \in HandlerIds : HandlerCancelled(h)
  \/ \E h \in HandlerIds : HandlerDiscard(h)

QueryNext ==
  \/ RunStart
  \/ \E c \in QueryChats, x \in QueryTexts : ReceiveMessage(c, x)
  \/ DispatchQueriesStart
  \/ DispatchQuery
  \/ QDRun
  \/ QDGet
  \/ QDTimeout
  \/ QDGathered
  \/ QDStop
  \/ \E h \in HandlerIds : HandlerThreadMessage(h)
  \/ \E h \in HandlerIds : HandlerThreadCreated(h)
  \/ \E h \in HandlerIds : HandlerMessageCreated(h)
  \/ \E h \in HandlerIds, run \in Runs : HandlerRunEnds(h, run[1], run[2])
  \/ \E h \in HandlerIds : HandlerRaises(h)
  \/ \E h \in HandlerIds : HandlerCancelled(h)
  \/ \E h \in HandlerIds : HandlerDiscard(h)

\* The way of a message from getUpdates to QueryDispatcher.queries: the
\* polling loop and dispatch_queries.  The clock stands still: event times
\* move the cursor only, not the queues.
PipelineNext ==
  \/ RunStart
  \/ StopSession
  \/ RunAfterStop
  \/ RunPolling
  \/ \E batch \in Batches(now, MaxUpdates - delivered) : FetchReturn(batch)
  \/ FetchEmpty
  \/ FetchError
  \/ FetchStopped
  \/ ProcessUpdate
  \/ DispatchQueriesStart
  \/ DispatchQuery

(* ---------------------------- command path ----------------------------- *)

\* main.handle_cmds before its task is created
CmdInit ==
  /\ cmd_pc = "idle"
  /\ cmd_handlers = {}
  /\ sent = <<>>
  /\ cmd_log = <<>>

\* The command queues handle_cmds is started on.
CmdQueues == UNION {[1..n -> CmdEntries] : n \in 0..MaxCmds}

\* main.handle_cmds starts: the head of `while bot.is_running`.
HandleCmdsStart ==
  /\ cmd_pc = "idle"
  /\ run_pc # "init"
  /\ cmd_pc' = IF is_running THEN "get" ELSE "gather"
  /\ UNCHANGED <<cmd_handlers, sent, cmd_log>>
  /\ UNCHANGED <<lifeVars, pollVars, qdVars>>

\* main.handle_cmds without its `except KeyError`: the lookup of an
\* unregistered command ends the coroutine.
HandleCmdNoCatch ==
  /\ cmd_pc = "get"
  /\ cmds_pending # <<>>
  /\ LET e == Head(cmds_pending)
         n == Len(cmd_log) + 1
     IN
     /\ cmds_pending' = Tail(cmds_pending)
     /\ cmd_log' = Append(cmd_log, e)
     /\ IF e[2] \in RegisteredCommands
          THEN /\ cmd_handlers' = cmd_handlers \cup {<<n, e[1], e[2]>>}
               /\ cmd_pc' = IF is_running THEN "get" ELSE "gather"
          ELSE /\ cmd_handlers' = cmd_handlers
               /\ cmd_pc' = "failed"
  /\ UNCHANGED sent
  /\ UNCHANGED <<lifeVars, cursorVars, queries, qdVars>>

\* main.handle_cmds: one iteration, from cmds_pending.get() returning an
\* entry to the next loop head.  bot.commands[cmd](chat, params) creates the
\* task of the callback; a KeyError is caught and the loop continues.
HandleCmd ==
  /\ cmd_pc = "get"
  /\ cmds_pending # <<>>
  /\ LET e == Head(cmds_pending)
         n == Len(cmd_log) + 1
     IN
     /\ cmds_pending' = Tail(cmds_pending)
     /\ cmd_log' = Append(cmd_log, e)
     /\ cmd_handlers' = IF e[2] \in RegisteredCommands
                          THEN cmd_handlers \cup {<<n, e[1], e[2]>>}
                          ELSE cmd_handlers
  /\ cmd_pc' = IF is_running THEN "get" ELSE "gather"
  /\ UNCHANGED sent
  /\ UNCHANGED <<lifeVars, cursorVars, queries, qdVars>>

\* The task of a command callback (_start_cb, _help_cb) runs: it posts one
\* sendMessage to the chat, or the post fails; its done-callback discards
\* it from `handlers`.
CommandCallback(t, ok) ==
  /\ t \in cmd_handlers
  /\ cmd_handlers' = cmd_handlers \ {t}
  /\ sent' = IF ok THEN Append(sent, <<t[2], t[3]>>) ELSE sent
  /\ UNCHANGED <<cmd_pc, cmd_log>>
  /\ UNCHANGED <<lifeVars, pollVars, qdVars>>

\* main's shutdown cancels the task of handle_cmds after stop_session();
\* the CancelledError is thrown into its cmds_pending.get().
HandleCmdsCancelled ==
  /\ cmd_pc = "get"
  /\ stop_session # "pending"
  /\ cmd_pc' = "cancelled"
  /\ UNCHANGED <<cmd_handlers, sent, cmd_log>>
  /\ UNCHANGED <<lifeVars, pollVars, qdVars>>

\* main.handle_cmds: `await asyncio.gather(*handlers)` after the loop.
HandleCmdsGathered ==
  /\ cmd_pc = "gather"
  /\ cmd_handlers = {}
  /\ cmd_pc' = "done"
  /\ UNCHANGED <<cmd_handlers, sent, cmd_log>>
  /\ UNCHANGED <<lifeVars, pollVars, qdVars>>

CommandsNext ==
  \/ RunStart
  \/ StopSession
  \/ RunAfterStop
  \/ HandleCmdsStart
  \/ HandleCmd
  \/ \E t \in cmd_handlers, ok \in BOOLEAN : CommandCallback(t, ok)
  \/ HandleCmdsCancelled
  \/ HandleCmdsGathered

(* --------------------------- specifications ---------------------------- *)

LifecycleNext ==
  \/ RunStart
  \/ RunAfterStop
  \/ RunAfterWork
  \/ StopSession
  \/ \E t \in TaskIds : add_tasks(t)
  \/ \E t \in TaskIds : TaskFinish(t)
  \/ \E t \in TaskIds : complete_work(t)

Init == BotInit /\ PollInit /\ cmds_pending = <<>> /\ QDInit /\ CmdInit

\* handle_cmds is checked on every command queue of up to MaxCmds entries.
InitCommands ==
  BotInit /\ PollInit /\ cmds_pending \in CmdQueues /\ QDInit /\ CmdInit

SpecLifecycle == Init /\ [][LifecycleNext]_vars

\* The event loop runs every callback and every resumed coroutine it has
\* scheduled, and the tasks a caller tracks come to an end.
SpecLifecycleFair ==
  /\ SpecLifecycle
  /\ WF_vars(RunAfterStop)
  /\ WF_vars(RunAfterWork)
  /\ WF_vars(\E t \in TaskIds : TaskFinish(t))
  /\ WF_vars(\E t \in TaskIds : complete_work(t))

SpecPolling == Init /\ [][PollingNext]_vars

SpecQuery == Init /\ [][QueryNext]_vars

SpecPipeline == Init /\ [][PipelineNext]_vars

SpecShutdown == Init /\ [][ShutdownNext]_vars

SpecCommands == InitCommands /\ [][CommandsNext]_vars

(* ------------------------------ claims --------------------------------- *)

\* C1: no chat_id ever has more than one handle_user task active.
C1_OneHandlerPerChat ==
  \A c \in QueryChats :
    Cardinality({h \in HandlerIds :
                   hinfo[h].st \in {"running", "cancelling"}
                   /\ hinfo[h].chat = c}) <= 1

\* C2: the work-complete future is unresolved whenever the tracked set holds
\* a task that has not completed.
C2_UnresolvedWhileTracked ==
  (work_complete = "done") => (\A t \in tasks : task_state[t] # "running")

\* C3: the work-complete future is resolved only after a stop request; a set
\* that drains before stop_session leaves it unresolved.
C3_ResolvedOnlyAfterStop ==
  (work_complete = "done") => (stop_session = "done")

\* C4: complete_work sets the result of the work-complete future at most
\* once in a run of the bot, also when tasks are tracked after a drain.
C4_ResolvedAtMostOnce ==
  set_result_calls <= 1 /\ cw_error # "InvalidStateError"

\* Whether process_updates applies update u to the cursor, rather than
\* raising before it reaches new_last_id.
Applies(u) == u.kind # "none" /\ EventDate(u, pu_date) # NotTimestamp

\* C5: while the bot is running, an exception raised in an iteration of the
\* polling loop is logged and run_polling goes on; it does not terminate.
C5_PollingSurvivesException ==
  (is_running /\ logged > 0) => poll_pc # "done"

\* The command a text names: the word after the command marker "/".
CommandOf(text) == IF text = "/start" THEN "start" ELSE "none"

\* C6: text that begins with the command marker and names a registered
\* command goes to the command queue as (chat_id, command_name, params) and
\* never to the query queue; all other text goes to the query queue.
C6_CommandsRoutedToCommandQueue ==
  \A i \in DOMAIN queries : CommandOf(queries[i][2]) \notin RegisteredCommands

\* C7: when all updates handled so far came with strictly increasing
\* update_id (so the latest id is the maximum) and event times inside the
\* reset window, the offset is max(update_id) + 1.
C7_OffsetIsMaxIdPlusOne ==
  (h_last # 0 /\ h_ok) => offset = h_last + 1

C7_Witness ==
  /\ delivered = 2 /\ updates = <<>> /\ poll_pc = "fetching"
  /\ h_ok /\ h_last = 3 /\ offset = 4

\* C8: when the previously recorded event time is older than the reset
\* window, the next update's update_id becomes last_id unconditionally and
\* the offset becomes that id + 1.
C8_StaleCursorAdoptsNextId ==
  [][ ( /\ poll_pc = "processing" /\ updates # <<>> /\ updates' # updates
        /\ last_date # NoDate /\ ~InWindow(last_date, now)
        /\ Applies(Head(updates)) )
      => ( /\ last_id' = Head(updates).update_id
           /\ offset' = Head(updates).update_id + 1 ) ]_vars

\* C9: between update-processing steps offset = last_id + 1, or no update
\* has been seen and offset has its initial value; a fetch in flight
\* requested exactly last_id + 1.
C9_OffsetFollowsLastId ==
  /\ \/ offset = last_id + 1
     \/ (last_date = NoDate /\ offset = InitialOffset)
  /\ poll_pc = "fetching" => req_offset = last_id + 1

C9_Witness ==
  /\ poll_pc = "fetching" /\ last_date # NoDate /\ last_id = 2
  /\ offset = 3 /\ req_offset = 3

\* C10: consuming a command queue entry whose command is not registered
\* spawns no task, sends nothing, raises nothing out of handle_cmds, and
\* the dispatcher goes back to waiting for the next entry.
C10_UnregisteredCommandDropped ==
  [][ ( /\ cmd_pc = "get" /\ cmds_pending # <<>>
        /\ cmds_pending' = Tail(cmds_pending)
        /\ Head(cmds_pending)[2] \notin RegisteredCommands )
      => ( /\ cmd_handlers' = cmd_handlers
           /\ sent' = sent
           /\ cmd_pc' \in {"get", "gather"}
           /\ is_running => cmd_pc' = "get" ) ]_vars

C10_Witness ==
  /\ Len(cmd_log) = 2
  /\ cmd_log[1][2] \notin RegisteredCommands
  /\ cmd_log[2][2] \in RegisteredCommands
  /\ cmd_handlers = {<<2, 1, cmd_log[2][2]>>}
  /\ sent = <<>>
  /\ cmd_pc = "get"

\* The run statuses other than "completed".
NotCompleted == RunStatuses \ {"completed"}

\* C11: when the run of a cycle ends in a terminal status other than
\* completed, handle_user puts nothing on the response queue for that
\* cycle and goes on to its sleep.
C11_NoResponseForFailedRun ==
  [][ \A h \in HandlerIds :
        (hinfo[h].pc = "run_thread" /\ hinfo'[h].run \in NotCompleted)
        => (responses' = responses /\ hinfo'[h].pc = "sleep") ]_vars

C11_Witness ==
  \E h \in HandlerIds :
    /\ hinfo[h].st = "running" /\ hinfo[h].pc = "sleep"
    /\ hinfo[h].run = "expired"
    /\ responses = <<>>

\* C12: once a handler of a chat has ended, by an exception or by
\* cancellation, and the chat has no handler left, the next entry of that
\* chat the running dispatcher takes from its queue starts a new handler.
C12_EndedHandlerFreesChat ==
  [][ ( /\ qd_pc = "get" /\ qd_running
        /\ qd_queries # <<>> /\ qd_queries' = Tail(qd_queries)
        /\ HandlersOf(Head(qd_queries)[1], "done") # {}
        /\ HandlersOf(Head(qd_queries)[1], "running") = {} )
      => ( /\ spawned' = spawned + 1
           /\ spawned' \in handlers'
           /\ hinfo'[spawned'].chat = Head(qd_queries)[1]
           /\ hinfo'[spawned'].st = "running" ) ]_vars

C12_Witness ==
  /\ qd_running /\ qd_pc = "get" /\ spawned = 2
  /\ hinfo[1].chat = 1 /\ hinfo[1].st = "done" /\ 1 \notin handlers
  /\ hinfo[2].chat = 1 /\ hinfo[2].st = "running" /\ hinfo[2].pc = "start"
  /\ handlers = {2}

\* C13: a handler task is in the active-chat set and in the tracked set of
\* the bot from its creation until it has ended.
C13_HandlersRegistered ==
  \A h \in HandlerIds :
    hinfo[h].st \in {"running", "cancelling"}
    => (hinfo[h].chat \in chats /\ <<"handle_user", h>> \in tasks)

C15_StopDiscardsFetch ==
  [][ (poll_pc = "fetching" /\ stop_session = "done")
      => ( /\ updates' = updates
           /\ offset' = offset /\ last_id' = last_id
           /\ queries' = queries ) ]_vars

\* C16: a task is in the tracked set from add_tasks until its own
\* done-callback runs, which is the only step that takes it out, once it
\* has ended; a task whose callback has run is not in the set.
C16_RemovedOnceByOwnCallback ==
  /\ [](\A t \in TaskIds :
          /\ task_state[t] = "running" => t \in tasks
          /\ task_state[t] \in {"new", "discarded"} => t \notin tasks)
  /\ [][ \A t \in TaskIds :
           (t \in tasks /\ t \notin tasks')
           => ( /\ task_state[t] = "finished"
                /\ task_state'[t] = "discarded"
                /\ tasks' = tasks \ {t} ) ]_vars

C16_Witness ==
  /\ task_state[1] = "discarded" /\ 1 \notin tasks
  /\ task_state[2] = "finished" /\ 2 \in tasks
  /\ task_state[3] = "running" /\ 3 \in tasks

\* C17: stop_session resolves the stop future and nothing else: the tracked
\* set, the state of every task and the work-complete future stay as they
\* are.
C17_StopOnlyResolvesSignal ==
  [][ (stop_session = "pending" /\ stop_session' = "done")
      => ( /\ tasks' = tasks
           /\ task_state' = task_state
           /\ work_complete' = work_complete
           /\ is_running' = is_running ) ]_vars

C17_Witness ==
  /\ stop_session = "done" /\ run_pc = "await_stop" /\ is_running
  /\ work_complete = "pending"
  /\ tasks = {1, 2} /\ task_state[1] = "running" /\ task_state[2] = "running"

\* C18: when the recorded event time is absent or inside the reset window,
\* applying an update leaves last_id at max(last_id, update_id), whatever
\* the order of ids and whatever the event time of the update.
C18_LastIdNeverDecreases ==
  [][ ( /\ poll_pc = "processing" /\ updates # <<>> /\ updates' # updates
        /\ Applies(Head(updates))
        /\ (last_date = NoDate \/ InWindow(last_date, now)) )
      => last_id' = Max(last_id, Head(updates).update_id) ]_vars

\* C19: an update whose message has a date but no chat id or no text adds
\* nothing to the query and command queues and raises nothing out of
\* process_updates; the offset moves past its update_id and the loop goes
\* on with the rest of the batch.
C19_UnparseableDropped ==
  [][ ( /\ poll_pc = "processing" /\ updates # <<>> /\ updates' # updates
        /\ Applies(Head(updates))
        /\ (Head(updates).chat = Absent \/ Head(updates).text = NoText) )
      => ( /\ queries' = queries
           /\ cmds_pending' = cmds_pending
           /\ logged' = logged
           /\ offset' > Head(updates).update_id
           /\ updates' = Tail(updates)
           /\ updates' # <<>> => poll_pc' = "processing"
           /\ is_running => poll_pc' # "done" ) ]_vars

C19_Witness ==
  /\ delivered = 2 /\ updates = <<>> /\ poll_pc = "fetching" /\ logged = 0
  /\ h_last = 2 /\ last_id = 2 /\ offset = 3
  /\ queries = << <<1, "hello">> >>

\* The user messages the threads ts of the backend hold, in all.
RECURSIVE MessagesIn(_)
MessagesIn(ts) ==
  IF ts = {} THEN 0
  ELSE LET t == CHOOSE x \in ts : TRUE
       IN Len(thread_log[t]) + MessagesIn(ts \ {t})

\* C20: a text queued once is on the thread of its chat once: the threads
\* never hold more user messages than texts were queued, the cycle that
\* creates the thread and the later cycles included.
C20_TextAppendedOnce ==
  MessagesIn(ThreadIds) <= received

\* C21: a chat gets one thread for good: once threads[chat_id] is set it
\* is never replaced by the handle of another thread.
C21_OneThreadPerChat ==
  [][ \A c \in QueryChats : threads[c] # 0 => threads'[c] = threads[c] ]_vars

\* C22: when the run of a cycle is completed and generated a text message,
\* handle_user puts exactly one entry on the response queue, carrying the
\* chat_id of the handler, and the handler does not end.
C22_CompletedRunReplies ==
  [][ \A h \in HandlerIds :
        ( /\ hinfo[h].pc = "run_thread"
          /\ hinfo'[h].run = "completed" /\ hinfo'[h].text )
        => ( /\ Len(responses') = Len(responses) + 1
             /\ SubSeq(responses', 1, Len(responses)) = responses
             /\ responses'[Len(responses')][1] = hinfo[h].chat
             /\ hinfo'[h].st = "running" ) ]_vars

\* C23: once main has run its shutdown sequence, QueryDispatcher.run starts
\* no new handler (the first of the conditions of quiescence: with a
\* handler started after stop(), which nothing cancels, run does not
\* return from its gather while that handler goes on).
C23_NoHandlerAfterShutdown ==
  [][ (qd_pc # "idle" /\ ~qd_running) => spawned' = spawned ]_vars

\* Sequence s is a prefix of sequence t.
IsPrefix(s, t) == Len(s) <= Len(t) /\ SubSeq(t, 1, Len(s)) = s

====
